---- MODULE Spec2Model ----
(***************************************************************************)
(* Model of the LRU cache of src/lru/lru.go (package lru).                  *)
(*                                                                         *)
(* The cache is a doubly linked list of elements (container/list) plus a   *)
(* map from key to list element.  Elements are modelled as slots of an     *)
(* arena: `ll` is the list of slot ids from front to back, `nodes` gives   *)
(* the entry each slot carries and `cache` is the map key -> slot id.      *)
(* Values are ByteViews, modelled by the byte sequence they wrap.          *)
(*                                                                         *)
(* One call runs at a time (the code holds no lock and is meant for a      *)
(* single caller).  `pc` is the position of the running call:              *)
(*   "idle"  no call is running                                            *)
(*   "test"  Add is at the loop condition of line 62                       *)
(*   "evict" Add is at the call of RemoveOldest of line 63                 *)
(*   "cb"    RemoveOldest is inside OnEvicted (line 86)                    *)
(*   "done"  the call has returned; its result is observable               *)
(***************************************************************************)
EXTENDS Integers, Sequences, FiniteSets, TLC

\* ---------------------------------------------------------------- bounds
MaxValLen == 2
MaxBudget == 6
MaxOps == 4
MaxClones == 2
MaxConcCalls == 2
ConcBudget == 3

\* ---------------------------------------------------------------- inputs
Keys == {"k", "k2", "k3"}
Bytes == {1, 2}
\* ByteViews of 1..MaxValLen bytes, all bytes equal
Values == {[i \in 1..n |-> b] : n \in 1..MaxValLen, b \in Bytes}
Budgets == (-1)..MaxBudget

NodeIds == 1..Cardinality(Keys)
Nil == 0
NilValue == <<>>
NoEntry == [key |-> "", value |-> NilValue]
NoRet == [value |-> NilValue, ok |-> FALSE]

VARIABLES
    maxBytes,      \* Cache.maxBytes
    OnEvicted,     \* TRUE iff Cache.OnEvicted is not nil
    nbytes,        \* Cache.nbytes
    ll,            \* Cache.ll: slot ids, front (most recent) first
    nodes,         \* the *entry each list element carries
    cache,         \* Cache.cache: key -> slot id
    pc,            \* position of the running call
    op,            \* name of the running call
    arg,           \* its arguments (an entry: key and value)
    ret,           \* result of Get
    cbLog,         \* arguments of the OnEvicted calls made by the running call
    pre,           \* entries of the list, front first, when the call started
    clock,         \* number of calls made so far
    lastUse,       \* per key: clock of its last Add or successful Get (0: not live)
    addedKeys,     \* keys ever passed to Add
    calledRemove,  \* TRUE once the caller has called RemoveOldest itself
    lastAdded,     \* per key: the value of its last Add (NilValue: not live)
    heap,          \* byte arrays in memory: address -> bytes
    view,          \* ByteView.b: address of the array the view wraps
    held,          \* addresses of the slices ByteSlice has handed out
    orig,          \* the bytes the ByteView was built from
    procs,         \* concurrent callers: position and locals of each
    overlapped     \* TRUE once two calls have been in progress at once

\* the cache and what one caller at a time does with it
cacheVars == <<maxBytes, OnEvicted, nbytes, ll, nodes, cache, pc, op, arg, ret,
               cbLog, pre, clock, lastUse, addedKeys, calledRemove, lastAdded>>

\* a ByteView and the slices taken from it
bvVars == <<heap, view, held, orig>>

\* callers that share the cache without a lock
concVars == <<procs, overlapped>>

vars == <<cacheVars, bvVars, concVars>>

\* ------------------------------------------------------- pure operations
\* Value.Len() of a ByteView
ValueLen(v) == Len(v)

\* len(key)
KeyLen(k) == Len(k)

\* line 60 with the key's length forgotten
EntrySize_NoKey(k, v) == ValueLen(v)

\* line 60: int64(len(key)) + int64(value.Len())
EntrySize(k, v) == KeyLen(k) + ValueLen(v)

\* line 84 with the key's length forgotten
RemovedSize_NoKey(k, v) == ValueLen(v)

\* line 84: int64(len(kv.key)) + int64(kv.value.Len())
RemovedSize(k, v) == KeyLen(k) + ValueLen(v)

\* line 55 with the two lengths the wrong way round
UpdateDelta_Swapped(new, old) == ValueLen(old) - ValueLen(new)

\* line 55 with the old value's length not given back
UpdateDelta_KeepOld(new, old) == ValueLen(new)

\* line 55: int64(value.Len()) - int64(kv.value.Len())
UpdateDelta(new, old) == ValueLen(new) - ValueLen(old)

\* line 81: c.ll.Remove(ele)
Remove(l, e) == SelectSeq(l, LAMBDA x : x # e)

\* line 58 linking the new element at the back
PushFront_Back(l, e) == l \o <<e>>

\* line 58: c.ll.PushFront
PushFront(l, e) == <<e>> \o l

\* lines 53 and 70 with the element linked in front and not unlinked
MoveToFront_Dup(l, e) == <<e>> \o l

\* lines 53 and 70 with the element left where it is
MoveToFront_Stay(l, e) == l

\* lines 53 and 70: c.ll.MoveToFront(ele)
MoveToFront(l, e) == <<e>> \o Remove(l, e)

\* line 79 without the test for the empty list: the list's root element
Back_Root(l) == IF l = <<>> THEN 1 ELSE l[Len(l)]

\* line 79 taking the front of the list
Back_Front(l) == IF l = <<>> THEN Nil ELSE l[1]

\* line 79: c.ll.Back()
Back(l) == IF l = <<>> THEN Nil ELSE l[Len(l)]

\* line 59 with the index left as it was
MapPut_Skip(m, k, e) == m

\* line 59: c.cache[key] = ele
MapPut(m, k, e) == [x \in (DOMAIN m) \cup {k} |-> IF x = k THEN e ELSE m[x]]

\* line 83 with the key left in the index
MapDelete_Skip(m, k) == m

\* line 83: delete(c.cache, kv.key)
MapDelete(m, k) == [x \in (DOMAIN m) \ {k} |-> m[x]]

\* a fresh list element: the least slot not linked in the list
NewElement(l) == CHOOSE e \in NodeIds :
                    /\ \A i \in 1..Len(l) : l[i] # e
                    /\ \A f \in NodeIds : (\A i \in 1..Len(l) : l[i] # f) => e <= f

\* line 62 evicting already when the budget is exactly used up
LoopCond_AtBudget(mb, nb) == mb # 0 /\ mb <= nb

\* line 62 letting one byte too many through
LoopCond_OffByOne(mb, nb) == mb # 0 /\ mb + 1 < nb

\* line 62 without the test for the unbounded budget
LoopCond_NoZero(mb, nb) == mb < nb

\* line 62: c.maxBytes != 0 && c.maxBytes < c.nbytes
LoopCond(mb, nb) == mb # 0 /\ mb < nb

\* line 74 reporting a hit
MissResult_Found == [value |-> NilValue, ok |-> TRUE]

\* line 74: return of the zero results (nil, false)
MissResult == NoRet

\* line 114: make([]byte, n)
MakeBytes(n) == [i \in 1..n |-> 0]

\* line 115: copy(c, b)
CopyBytes(dst, src) ==
    [i \in 1..Len(dst) |-> IF i <= Len(src) THEN src[i] ELSE dst[i]]

\* the next free address of a memory
NewAddr(h) == Cardinality(DOMAIN h) + 1

\* lines 113..117 returning the slice it was given
cloneBytes_Alias(h, b) == [heap |-> h, addr |-> b]

\* lines 113..117: cloneBytes(b) allocates an array, copies b into it and
\* returns it
cloneBytes(h, b) ==
    LET c == NewAddr(h)
        bytes == CopyBytes(MakeBytes(Len(h[b])), h[b])
    IN [heap |-> [a \in (DOMAIN h) \cup {c} |-> IF a = c THEN bytes ELSE h[a]],
        addr |-> c]

\* lines 99..101: ByteView.Len
ByteViewLen(h, v) == Len(h[v])

\* lines 109..111: ByteView.String, the bytes of b as a string
ByteViewString(h, v) == [i \in 1..Len(h[v]) |-> h[v][i]]

\* lines 104..106: the bytes of the slice ByteView.ByteSlice returns
ByteSliceBytes(h, v) == LET r == cloneBytes(h, v) IN r.heap[r.addr]

\* c.ll.Len()
CacheLen == Len(ll)

\* the entries of a list, front first
Entries(l, n) == [i \in 1..Len(l) |-> n[l[i]]]

\* where a call of RemoveOldest returns to
After(o) == IF o = "Add" THEN "test" ELSE "done"

\* ------------------------------------------------------------------ Init
\* no ByteView is under study
NoByteView ==
    /\ heap = <<>>
    /\ view = Nil
    /\ held = {}
    /\ orig = <<>>

\* no concurrent caller
NoProcs ==
    /\ procs = <<>>
    /\ overlapped = FALSE

\* the cache New returns, lines 42..47, and no call made yet; ids are the
\* list elements that can be allocated
FreshWith(ids) ==
    /\ nbytes = 0
    /\ ll = <<>>
    /\ nodes = [e \in ids |-> NoEntry]
    /\ cache = [x \in {} |-> Nil]
    /\ pc = "idle"
    /\ op = "none"
    /\ arg = NoEntry
    /\ ret = NoRet
    /\ cbLog = <<>>
    /\ pre = <<>>
    /\ clock = 0
    /\ lastUse = [k \in Keys |-> 0]
    /\ addedKeys = {}
    /\ calledRemove = FALSE
    /\ lastAdded = [k \in Keys |-> NilValue]

Fresh == FreshWith(NodeIds)

Init ==
    /\ maxBytes \in Budgets
    /\ OnEvicted \in BOOLEAN
    /\ Fresh
    /\ NoByteView
    /\ NoProcs

\* --------------------------------------------------------------- actions
\* the fields of the cache that RemoveOldest works on
CacheState == [ll |-> ll, nodes |-> nodes, cache |-> cache, nbytes |-> nbytes]

\* lines 79..84 of RemoveOldest as a function of the cache
RemoveOldestOf(s) ==
    LET ele == Back(s.ll) IN
    IF ele # Nil
      THEN LET kv == s.nodes[ele] IN
           [ll |-> Remove(s.ll, ele),
            cache |-> MapDelete(s.cache, kv.key),
            nbytes |-> s.nbytes - RemovedSize(kv.key, kv.value),
            nodes |-> [s.nodes EXCEPT ![ele] = NoEntry]]
      ELSE s

\* RemoveOldest called n times in a row
RECURSIVE Drain(_, _)
Drain(s, n) == IF n = 0 THEN s ELSE Drain(RemoveOldestOf(s), n - 1)

\* lines 79..88 of RemoveOldest, up to the call of OnEvicted
RemoveOldestBody(after) ==
    LET ele == Back(ll) IN
    IF ele # Nil
      THEN LET kv == nodes[ele]
               s == RemoveOldestOf(CacheState)
           IN
           /\ ll' = s.ll
           /\ cache' = s.cache
           /\ nbytes' = s.nbytes
           /\ nodes' = s.nodes
           /\ lastUse' = [lastUse EXCEPT ![kv.key] = 0]
           /\ lastAdded' = [lastAdded EXCEPT ![kv.key] = NilValue]
           /\ IF OnEvicted
                THEN cbLog' = Append(cbLog, kv) /\ pc' = "cb"
                ELSE cbLog' = cbLog /\ pc' = after
      ELSE /\ UNCHANGED <<ll, cache, nbytes, nodes, lastUse, lastAdded, cbLog>>
           /\ pc' = after

\* Add, lines 52..61: update or insert
Add(key, value) ==
    /\ pc = "idle"
    /\ clock < MaxOps
    /\ IF key \in DOMAIN cache
         THEN LET ele == cache[key]
                  kv == nodes[ele]
              IN /\ ll' = MoveToFront(ll, ele)
                 /\ nbytes' = nbytes + UpdateDelta(value, kv.value)
                 /\ nodes' = [nodes EXCEPT ![ele].value = value]
                 /\ cache' = cache
         ELSE LET ele == NewElement(ll)
              IN /\ ll' = PushFront(ll, ele)
                 /\ nodes' = [nodes EXCEPT ![ele] = [key |-> key, value |-> value]]
                 /\ cache' = MapPut(cache, key, ele)
                 /\ nbytes' = nbytes + EntrySize(key, value)
    /\ pc' = "test"
    /\ op' = "Add"
    /\ arg' = [key |-> key, value |-> value]
    /\ pre' = Entries(ll, nodes)
    /\ clock' = clock + 1
    /\ lastUse' = [lastUse EXCEPT ![key] = clock + 1]
    /\ addedKeys' = addedKeys \cup {key}
    /\ lastAdded' = [lastAdded EXCEPT ![key] = value]
    /\ UNCHANGED <<maxBytes, OnEvicted, ret, cbLog, calledRemove>>
    /\ UNCHANGED <<bvVars, concVars>>

\* Add, line 62: the loop condition
AddTest ==
    /\ pc = "test"
    /\ pc' = IF LoopCond(maxBytes, nbytes) THEN "evict" ELSE "done"
    /\ UNCHANGED <<maxBytes, OnEvicted, nbytes, ll, nodes, cache, op, arg, ret,
                   cbLog, pre, clock, lastUse, addedKeys, calledRemove, lastAdded>>
    /\ UNCHANGED <<bvVars, concVars>>

\* Add, line 63: c.RemoveOldest()
AddEvict ==
    /\ pc = "evict"
    /\ RemoveOldestBody(After(op))
    /\ UNCHANGED <<maxBytes, OnEvicted, op, arg, ret, pre, clock, addedKeys,
                   calledRemove>>
    /\ UNCHANGED <<bvVars, concVars>>

\* Get, lines 68..75
Get(key) ==
    /\ pc = "idle"
    /\ clock < MaxOps
    /\ IF key \in DOMAIN cache
         THEN LET ele == cache[key]
                  kv == nodes[ele]
              IN /\ ll' = MoveToFront(ll, ele)
                 /\ ret' = [value |-> kv.value, ok |-> TRUE]
                 /\ lastUse' = [lastUse EXCEPT ![key] = clock + 1]
         ELSE /\ ll' = ll
              /\ ret' = MissResult
              /\ lastUse' = lastUse
    /\ pc' = "done"
    /\ op' = "Get"
    /\ arg' = [key |-> key, value |-> NilValue]
    /\ pre' = Entries(ll, nodes)
    /\ clock' = clock + 1
    /\ UNCHANGED <<maxBytes, OnEvicted, nbytes, nodes, cache, cbLog, addedKeys,
                   calledRemove, lastAdded>>
    /\ UNCHANGED <<bvVars, concVars>>

\* RemoveOldest called by the user of the cache, lines 78..89
RemoveOldest ==
    /\ pc = "idle"
    /\ clock < MaxOps
    /\ RemoveOldestBody(After("RemoveOldest"))
    /\ op' = "RemoveOldest"
    /\ arg' = NoEntry
    /\ pre' = Entries(ll, nodes)
    /\ clock' = clock + 1
    /\ calledRemove' = TRUE
    /\ UNCHANGED <<maxBytes, OnEvicted, ret, addedKeys>>
    /\ UNCHANGED <<bvVars, concVars>>

\* OnEvicted returns (line 86); the callback only looks at the cache
Callback ==
    /\ pc = "cb"
    /\ pc' = After(op)
    /\ UNCHANGED <<maxBytes, OnEvicted, nbytes, ll, nodes, cache, op, arg, ret,
                   cbLog, pre, clock, lastUse, addedKeys, calledRemove, lastAdded>>
    /\ UNCHANGED <<bvVars, concVars>>

\* the caller takes the result; the next call may start
Return ==
    /\ pc = "done"
    /\ pc' = "idle"
    /\ op' = "none"
    /\ arg' = NoEntry
    /\ ret' = NoRet
    /\ cbLog' = <<>>
    /\ pre' = <<>>
    /\ UNCHANGED <<maxBytes, OnEvicted, nbytes, ll, nodes, cache, clock, lastUse,
                   addedKeys, calledRemove, lastAdded>>
    /\ UNCHANGED <<bvVars, concVars>>

Next ==
    \/ \E key \in Keys, value \in Values : Add(key, value)
    \/ AddTest
    \/ AddEvict
    \/ \E key \in Keys : Get(key)
    \/ RemoveOldest
    \/ Callback
    \/ Return

Spec == Init /\ [][Next]_vars

\* the calls of scenario 3 on a fresh cache:
\* Add("k", v1); Get("k"); Add("k2", v2); Add("k3", v3)
ScenarioNext ==
    \/ clock = 0 /\ \E value \in Values : Add("k", value)
    \/ clock = 1 /\ Get("k")
    \/ clock = 2 /\ \E value \in Values : Add("k2", value)
    \/ clock = 3 /\ \E value \in Values : Add("k3", value)
    \/ AddTest
    \/ AddEvict
    \/ Callback
    \/ Return

ScenarioSpec == Init /\ [][ScenarioNext]_vars

\* ------------------------------------------------------------ ByteView
\* the byte sequences a ByteView can wrap
ByteSeqs == UNION {[1..n -> Bytes] : n \in 0..MaxValLen}

\* a ByteView over bytes of its own
ByteViewInit ==
    /\ maxBytes = 0
    /\ OnEvicted = FALSE
    /\ Fresh
    /\ NoProcs
    /\ \E b \in ByteSeqs :
          /\ heap = [a \in {1} |-> b]
          /\ orig = b
    /\ view = 1
    /\ held = {}

\* v.ByteSlice(), lines 104..106; the caller keeps the slice
ByteSlice ==
    /\ Cardinality(held) < MaxClones
    /\ LET r == cloneBytes(heap, view) IN
          /\ heap' = r.heap
          /\ held' = held \cup {r.addr}
    /\ UNCHANGED <<view, orig, cacheVars, concVars>>

\* the caller writes byte x at index i of a slice it got from ByteSlice
MutateSlice(a, i, x) ==
    /\ a \in held
    /\ i \in 1..Len(heap[a])
    /\ heap' = [heap EXCEPT ![a][i] = x]
    /\ UNCHANGED <<view, held, orig, cacheVars, concVars>>

ByteViewNext ==
    \/ ByteSlice
    \/ \E a \in held, i \in 1..MaxValLen, x \in Bytes \cup {0} : MutateSlice(a, i, x)

ByteViewSpec == ByteViewInit /\ [][ByteViewNext]_vars

\* ------------------------------------------- callers without a lock
\* Two callers share one cache and take no lock.  Each statement of Add and
\* RemoveOldest is a step of its caller, the read and the write of nbytes
\* in `+=` and `-=` being two steps; the steps of the callers interleave.
\* List elements are never reused here: a caller may still hold an element
\* that another caller has unlinked.
Procs == {1, 2}
ConcKeys == {"k", "k2"}
ConcValues == {<<1>>, <<1, 1>>}
ConcBudgets == {0, ConcBudget}
ConcNodeIds == 1..MaxConcCalls

\* the cache fields a caller does not touch here, and the single caller's
\* bookkeeping
seqVars == <<maxBytes, OnEvicted, pc, op, arg, ret, cbLog, pre, clock, lastUse,
             addedKeys, calledRemove, lastAdded>>

IdleProc == [pc |-> "idle", key |-> "", value |-> NilValue, ele |-> Nil,
             acc |-> 0, inAdd |-> FALSE, calls |-> 0]

ConcInit ==
    /\ maxBytes \in ConcBudgets
    /\ OnEvicted = FALSE
    /\ FreshWith(ConcNodeIds)
    /\ NoByteView
    /\ procs = [p \in Procs |-> IdleProc]
    /\ overlapped = FALSE

\* e.list == l of container/list: the element is linked in the list
InList(l, e) == \E i \in 1..Len(l) : l[i] = e

\* a new list element: the least slot never used
NewElementConc(n) == CHOOSE e \in DOMAIN n :
                        /\ n[e] = NoEntry
                        /\ \A f \in DOMAIN n : n[f] = NoEntry => e <= f

\* caller p moves on to statement l
Goto(p, l) == procs' = [procs EXCEPT ![p].pc = l]

\* RemoveOldest of caller p returns: into the loop of Add, or to the caller
ReturnFromRemoveOldest(p) ==
    IF procs[p].inAdd
      THEN Goto(p, "a62")
      ELSE procs' = [procs EXCEPT ![p].pc = "idle", ![p].calls = @ + 1]

\* the number of calls made so far, those in progress included
RECURSIVE CallsOf(_)
CallsOf(ps) ==
    IF ps = {} THEN 0
    ELSE LET p == CHOOSE q \in ps : TRUE
         IN procs[p].calls + (IF procs[p].pc # "idle" THEN 1 ELSE 0)
              + CallsOf(ps \ {p})

\* some other caller is inside a call
OthersBusy(p) == \E q \in Procs \ {p} : procs[q].pc # "idle"

\* caller p calls Add(key, value), line 51
CallAdd(p, key, value) ==
    /\ procs[p].pc = "idle"
    /\ CallsOf(Procs) < MaxConcCalls
    /\ procs' = [procs EXCEPT ![p].pc = "a52", ![p].key = key,
                              ![p].value = value, ![p].inAdd = TRUE]
    /\ overlapped' = (overlapped \/ OthersBusy(p))
    /\ UNCHANGED <<nbytes, ll, nodes, cache, seqVars, bvVars>>

\* line 52: ele, ok := c.cache[key]
A52(p) ==
    /\ procs[p].pc = "a52"
    /\ IF procs[p].key \in DOMAIN cache
         THEN procs' = [procs EXCEPT ![p].pc = "a53", ![p].ele = cache[procs[p].key]]
         ELSE Goto(p, "a58")
    /\ UNCHANGED <<nbytes, ll, nodes, cache, overlapped, seqVars, bvVars>>

\* line 53: c.ll.MoveToFront(ele), which leaves an unlinked element alone
A53(p) ==
    /\ procs[p].pc = "a53"
    /\ ll' = IF InList(ll, procs[p].ele) THEN MoveToFront(ll, procs[p].ele) ELSE ll
    /\ Goto(p, "a55r")
    /\ UNCHANGED <<nbytes, nodes, cache, overlapped, seqVars, bvVars>>

\* line 55, the read of c.nbytes += ...
A55r(p) ==
    /\ procs[p].pc = "a55r"
    /\ procs' = [procs EXCEPT ![p].pc = "a55w",
                              ![p].acc = nbytes + UpdateDelta(procs[p].value,
                                                              nodes[procs[p].ele].value)]
    /\ UNCHANGED <<nbytes, ll, nodes, cache, overlapped, seqVars, bvVars>>

\* line 55, the write of c.nbytes += ...
A55w(p) ==
    /\ procs[p].pc = "a55w"
    /\ nbytes' = procs[p].acc
    /\ Goto(p, "a56")
    /\ UNCHANGED <<ll, nodes, cache, overlapped, seqVars, bvVars>>

\* line 56: kv.value = value
A56(p) ==
    /\ procs[p].pc = "a56"
    /\ nodes' = [nodes EXCEPT ![procs[p].ele].value = procs[p].value]
    /\ Goto(p, "a62")
    /\ UNCHANGED <<nbytes, ll, cache, overlapped, seqVars, bvVars>>

\* line 58: ele := c.ll.PushFront(&entry{key, value})
A58(p) ==
    /\ procs[p].pc = "a58"
    /\ LET ele == NewElementConc(nodes) IN
          /\ nodes' = [nodes EXCEPT ![ele] = [key |-> procs[p].key,
                                               value |-> procs[p].value]]
          /\ ll' = PushFront(ll, ele)
          /\ procs' = [procs EXCEPT ![p].pc = "a59", ![p].ele = ele]
    /\ UNCHANGED <<nbytes, cache, overlapped, seqVars, bvVars>>

\* line 59: c.cache[key] = ele
A59(p) ==
    /\ procs[p].pc = "a59"
    /\ cache' = MapPut(cache, procs[p].key, procs[p].ele)
    /\ Goto(p, "a60r")
    /\ UNCHANGED <<nbytes, ll, nodes, overlapped, seqVars, bvVars>>

\* line 60, the read of c.nbytes += ...
A60r(p) ==
    /\ procs[p].pc = "a60r"
    /\ procs' = [procs EXCEPT ![p].pc = "a60w",
                              ![p].acc = nbytes + EntrySize(procs[p].key, procs[p].value)]
    /\ UNCHANGED <<nbytes, ll, nodes, cache, overlapped, seqVars, bvVars>>

\* line 60, the write of c.nbytes += ...
A60w(p) ==
    /\ procs[p].pc = "a60w"
    /\ nbytes' = procs[p].acc
    /\ Goto(p, "a62")
    /\ UNCHANGED <<ll, nodes, cache, overlapped, seqVars, bvVars>>

\* line 62: the loop condition; Add returns when it is false
A62(p) ==
    /\ procs[p].pc = "a62"
    /\ IF LoopCond(maxBytes, nbytes)
         THEN Goto(p, "r79")
         ELSE procs' = [procs EXCEPT ![p].pc = "idle", ![p].inAdd = FALSE,
                                     ![p].calls = @ + 1]
    /\ UNCHANGED <<nbytes, ll, nodes, cache, overlapped, seqVars, bvVars>>

\* caller p calls RemoveOldest(), line 78
CallRemoveOldest(p) ==
    /\ procs[p].pc = "idle"
    /\ CallsOf(Procs) < MaxConcCalls
    /\ procs' = [procs EXCEPT ![p].pc = "r79", ![p].inAdd = FALSE]
    /\ overlapped' = (overlapped \/ OthersBusy(p))
    /\ UNCHANGED <<nbytes, ll, nodes, cache, seqVars, bvVars>>

\* lines 79..80: ele := c.ll.Back(); if ele != nil
R79(p) ==
    /\ procs[p].pc = "r79"
    /\ LET ele == Back(ll) IN
          IF ele # Nil
            THEN procs' = [procs EXCEPT ![p].pc = "r81", ![p].ele = ele]
            ELSE ReturnFromRemoveOldest(p)
    /\ UNCHANGED <<nbytes, ll, nodes, cache, overlapped, seqVars, bvVars>>

\* line 81: c.ll.Remove(ele), which leaves an unlinked element alone
R81(p) ==
    /\ procs[p].pc = "r81"
    /\ ll' = Remove(ll, procs[p].ele)
    /\ Goto(p, "r83")
    /\ UNCHANGED <<nbytes, nodes, cache, overlapped, seqVars, bvVars>>

\* line 83: delete(c.cache, kv.key)
R83(p) ==
    /\ procs[p].pc = "r83"
    /\ cache' = MapDelete(cache, nodes[procs[p].ele].key)
    /\ Goto(p, "r84r")
    /\ UNCHANGED <<nbytes, ll, nodes, overlapped, seqVars, bvVars>>

\* line 84, the read of c.nbytes -= ...
R84r(p) ==
    /\ procs[p].pc = "r84r"
    /\ procs' = [procs EXCEPT ![p].pc = "r84w",
                              ![p].acc = nbytes - RemovedSize(nodes[procs[p].ele].key,
                                                              nodes[procs[p].ele].value)]
    /\ UNCHANGED <<nbytes, ll, nodes, cache, overlapped, seqVars, bvVars>>

\* line 84, the write of c.nbytes -= ...; OnEvicted is nil, the call returns
R84w(p) ==
    /\ procs[p].pc = "r84w"
    /\ nbytes' = procs[p].acc
    /\ ReturnFromRemoveOldest(p)
    /\ UNCHANGED <<ll, nodes, cache, overlapped, seqVars, bvVars>>

ConcNext ==
    \E p \in Procs :
       \/ \E key \in ConcKeys, value \in ConcValues : CallAdd(p, key, value)
       \/ A52(p)
       \/ A53(p)
       \/ A55r(p)
       \/ A55w(p)
       \/ A56(p)
       \/ A58(p)
       \/ A59(p)
       \/ A60r(p)
       \/ A60w(p)
       \/ A62(p)
       \/ CallRemoveOldest(p)
       \/ R79(p)
       \/ R81(p)
       \/ R83(p)
       \/ R84r(p)
       \/ R84w(p)

ConcSpec == ConcInit /\ [][ConcNext]_vars

\* no call is in progress
Quiescent == \A p \in DOMAIN procs : procs[p].pc = "idle"

\* a running call keeps running: the code has no blocking step
FairSpec == Spec /\ WF_vars(AddTest) /\ WF_vars(AddEvict) /\ WF_vars(Callback)
                 /\ WF_vars(Return)

TypeOK ==
    /\ maxBytes \in Budgets
    /\ OnEvicted \in BOOLEAN
    /\ nbytes \in Int
    /\ pc \in {"idle", "test", "evict", "cb", "done"}
    /\ op \in {"none", "Add", "Get", "RemoveOldest"}
    /\ clock \in 0..MaxOps
    /\ \A i \in 1..Len(ll) : ll[i] \in NodeIds
    /\ DOMAIN cache \subseteq Keys

\* ------------------------------------------------- what a call has done
\* the keys carried by the elements of the list
ListKeys == {nodes[ll[i]].key : i \in 1..Len(ll)}

\* the keys that were live when the running call started
PreKeys == {pre[i].key : i \in 1..Len(pre)}

\* the position a key had in the list when the running call started
PreIndex(k) == CHOOSE i \in 1..Len(pre) : pre[i].key = k

\* sum of len(key) + value.Len() over a sequence of entries
RECURSIVE SumSizes(_)
SumSizes(es) ==
    IF es = <<>> THEN 0
    ELSE Len(es[1].key) + Len(es[1].value) + SumSizes(Tail(es))

\* the bytes the live entries take
LiveBytes == SumSizes(Entries(ll, nodes))

\* the entries the running call can remove, most recently used first: for
\* Add, the entries it found with its own entry put in front
Started ==
    IF op = "Add"
      THEN <<arg>> \o SelectSeq(pre, LAMBDA e : e.key # arg.key)
      ELSE pre

\* the entries the running call has removed so far
Removed == {Started[i] : i \in {j \in 1..Len(Started) : Started[j].key \notin ListKeys}}

\* the entry fits the budget of the cache
Fits(e) == maxBytes = 0 \/ (maxBytes > 0 /\ Len(e.key) + Len(e.value) <= maxBytes)

\* ---------------------------------------------------------------- claims

\* C1: after any sequence of Add, Get and RemoveOldest calls, nbytes equals
\* the sum of len(key) + value.Len() over exactly the entries in the cache.
C1_Accounting == nbytes = LiveBytes

C1_Witness ==
    /\ pc = "done" /\ op = "RemoveOldest"
    /\ Len(pre) = 3 /\ Len(ll) = 2
    /\ nbytes = LiveBytes /\ nbytes > 0

\* C2: with maxBytes > 0, whenever Add returns, nbytes <= maxBytes.  The
\* exception the claim allows for an entry larger than the budget is never
\* used: such an entry is evicted by its own Add.
C2_Budget == (pc = "done" /\ op = "Add" /\ maxBytes > 0) => nbytes <= maxBytes

C2_Witness ==
    /\ pc = "done" /\ op = "Add" /\ maxBytes > 0
    /\ Len(ll) < Len(Started) /\ Len(ll) >= 1
    /\ nbytes <= maxBytes

\* C3: the keys of the index are the keys carried by the list's elements,
\* every key has exactly one element, and the index maps each key to the
\* element that carries it.
C3_Bijection ==
    /\ DOMAIN cache = ListKeys
    /\ \A i, j \in 1..Len(ll) : nodes[ll[i]].key = nodes[ll[j]].key => i = j
    /\ \A k \in DOMAIN cache :
          /\ nodes[cache[k]].key = k
          /\ \E i \in 1..Len(ll) : ll[i] = cache[k]

C3_Witness ==
    /\ pc = "done" /\ op = "Add" /\ arg.key \in PreKeys
    /\ calledRemove /\ Len(ll) = 2
    /\ DOMAIN cache = ListKeys

\* C4: a step that removes an entry (RemoveOldest, called by the user or by
\* Add) removes the live entry whose last Add or successful Get is the
\* earliest among the live entries.
C4_RecencyLaw ==
    [][ Len(ll') < Len(ll) =>
          \E k \in ListKeys :
             /\ ListKeys' = ListKeys \ {k}
             /\ \A j \in ListKeys \ {k} : lastUse[k] < lastUse[j] ]_vars

C4_Witness ==
    /\ pc = "done" /\ op = "RemoveOldest"
    /\ Len(pre) = 3 /\ Len(ll) = 2
    /\ cbLog = <<pre[3]>>
    /\ \E k \in ListKeys : lastUse[k] = clock - 1

\* C5 as stated: Add(k, v2) on a cache holding k leaves exactly one entry
\* for k, with value v2, and k contributes len(k) + v2.Len() to nbytes.
UpdateLaw ==
    /\ Cardinality({i \in 1..Len(ll) : nodes[ll[i]].key = arg.key}) = 1
    /\ arg.key \in DOMAIN cache
    /\ nodes[cache[arg.key]] = arg
    /\ nbytes - SumSizes(SelectSeq(Entries(ll, nodes), LAMBDA e : e.key # arg.key))
          = Len(arg.key) + Len(arg.value)

C5_UpdateLaw_AsStated ==
    (pc = "done" /\ op = "Add" /\ arg.key \in PreKeys) => UpdateLaw

\* C5 amended: the update law holds when the entry (k, v2) fits the budget.
C5_UpdateLaw ==
    (pc = "done" /\ op = "Add" /\ arg.key \in PreKeys /\ Fits(arg)) => UpdateLaw

C5_Witness ==
    /\ pc = "done" /\ op = "Add" /\ arg.key \in PreKeys /\ Fits(arg)
    /\ maxBytes > 0
    /\ Len(pre[PreIndex(arg.key)].value) > Len(arg.value)
    /\ UpdateLaw

\* C6: OnEvicted, when set, is called exactly once for each entry removed
\* and for nothing else, with the entry's key and value; when it is called
\* the entry is gone from index and list and taken off nbytes.
C6_EvictionCallback ==
    /\ op # "none" =>
          IF OnEvicted
            THEN /\ {cbLog[i] : i \in 1..Len(cbLog)} = Removed
                 /\ Len(cbLog) = Cardinality(Removed)
            ELSE cbLog = <<>> /\ pc # "cb"
    /\ pc = "cb" =>
          LET kv == cbLog[Len(cbLog)] IN
          /\ OnEvicted
          /\ kv.key \notin DOMAIN cache
          /\ kv.key \notin ListKeys
          /\ nbytes = LiveBytes
          /\ C3_Bijection

C6_Witness ==
    /\ pc = "cb" /\ OnEvicted
    /\ Len(cbLog) = 2
    /\ Len(ll) >= 1
    /\ cbLog[2].key \notin DOMAIN cache

\* C7: the callbacks of one Add come least recently used first, and when one
\* is running every entry not yet reported is still in the cache.
C7_EvictionOrder ==
    (op = "Add" /\ OnEvicted) =>
       /\ \A i \in 1..Len(cbLog) : cbLog[i] = Started[Len(Started) + 1 - i]
       /\ Entries(ll, nodes) = SubSeq(Started, 1, Len(Started) - Len(cbLog))

C7_Witness ==
    /\ pc = "done" /\ op = "Add" /\ OnEvicted
    /\ Len(cbLog) = 2 /\ Len(ll) = 1
    /\ cbLog[1] # cbLog[2]

\* C8: with maxBytes = 0 and only Add and Get called, nothing is ever
\* evicted, OnEvicted is never called, and Len() is the number of distinct
\* keys added so far.
C8_Unbounded ==
    (maxBytes = 0 /\ ~calledRemove) =>
       /\ pc \notin {"evict", "cb"}
       /\ cbLog = <<>>
       /\ CacheLen = Cardinality(addedKeys)

C8_Witness ==
    /\ maxBytes = 0 /\ ~calledRemove /\ OnEvicted
    /\ pc = "done" /\ op = "Add"
    /\ CacheLen = 3 /\ nbytes > MaxBudget

\* C9: with maxBytes < 0, Add never evicts an entry.
C9_NegativeBudget ==
    (maxBytes < 0 /\ op = "Add") =>
       /\ pc # "evict"
       /\ cbLog = <<>>
       /\ Len(ll) = Len(Started)

\* C10: whatever maxBytes is, a call of Add returns.
C10_AddReturns == (op = "Add") ~> (pc = "done")

\* a call of Add on a cache with maxBytes >= 0 returns
AddReturnsNonNegative == (op = "Add" /\ maxBytes >= 0) ~> (pc = "done")

\* C11: Get of a key that is not in the cache returns (nil, false), leaves
\* entries, order and nbytes as they are and calls no callback.
C11_GetMiss ==
    [][ (pc = "idle" /\ op' = "Get" /\ arg'.key \notin ListKeys) =>
          /\ ret' = [value |-> NilValue, ok |-> FALSE]
          /\ pc' = "done"
          /\ ll' = ll /\ nodes' = nodes /\ cache' = cache
          /\ nbytes' = nbytes
          /\ cbLog' = <<>> ]_vars

C11_Witness ==
    /\ pc = "done" /\ op = "Get" /\ arg.key \notin PreKeys
    /\ Len(pre) = 2 /\ ~ret.ok
    /\ Entries(ll, nodes) = pre

\* C12: Get of a live key k returns true and the value of the last Add(k, .),
\* puts k in front, and leaves the entries, their values, the order of the
\* other entries and nbytes as they are.
C12_GetHit ==
    [][ (pc = "idle" /\ op' = "Get" /\ arg'.key \in ListKeys) =>
          LET k == arg'.key
              old == Entries(ll, nodes)
              new == Entries(ll', nodes')
          IN /\ ret'.ok /\ ret'.value = lastAdded[k]
             /\ new[1].key = k
             /\ Len(new) = Len(old)
             /\ {new[i] : i \in 1..Len(new)} = {old[i] : i \in 1..Len(old)}
             /\ SelectSeq(new, LAMBDA e : e.key # k) = SelectSeq(old, LAMBDA e : e.key # k)
             /\ cache' = cache
             /\ nbytes' = nbytes
             /\ cbLog' = <<>> ]_vars

C12_Witness ==
    /\ pc = "done" /\ op = "Get" /\ ret.ok
    /\ Len(pre) = 3 /\ pre[3].key = arg.key
    /\ nodes[ll[1]].key = arg.key
    /\ ret.value = lastAdded[arg.key]

\* C13: RemoveOldest on an empty cache does nothing: no callback, Len() and
\* nbytes stay 0, and the call returns.
C13_RemoveOldestEmpty ==
    [][ (pc = "idle" /\ op' = "RemoveOldest" /\ CacheLen = 0) =>
          /\ pc' = "done"
          /\ cbLog' = <<>>
          /\ CacheLen' = 0
          /\ nbytes = 0 /\ nbytes' = 0
          /\ cache' = cache /\ nodes' = nodes ]_vars

C13_Witness ==
    /\ pc = "done" /\ op = "RemoveOldest" /\ OnEvicted
    /\ pre = <<>> /\ CacheLen = 0 /\ nbytes = 0
    /\ cbLog = <<>>
    /\ addedKeys # {}

\* C14: from every reachable state with Len() = n, n calls of RemoveOldest
\* give the empty cache (no element, no index entry, nbytes = 0), and each
\* call takes Len() down by exactly one.
C14_ReturnToEmpty ==
    pc = "idle" =>
       LET n == CacheLen IN
       /\ \A i \in 1..n : Len(Drain(CacheState, i).ll) = n - i
       /\ Drain(CacheState, n).ll = <<>>
       /\ DOMAIN Drain(CacheState, n).cache = {}
       /\ Drain(CacheState, n).nbytes = 0
       /\ \A e \in NodeIds : Drain(CacheState, n).nodes[e] = NoEntry

C14_Witness ==
    /\ pc = "idle" /\ CacheLen = 3 /\ nbytes > 0
    /\ Len(Drain(CacheState, 2).ll) = 1
    /\ Drain(CacheState, 3).ll = <<>>
    /\ Drain(CacheState, 3).nbytes = 0

\* C15 as stated: after Add("k", v1); Get("k"); Add("k2", v2); Add("k3", v3),
\* the last Add evicting exactly one entry, the evicted key is "k2".
C15_Scenario3_AsStated ==
    (clock = 4 /\ pc = "done" /\ Cardinality(Removed) = 1) =>
       {e.key : e \in Removed} = {"k2"}

\* C15 amended: the one entry evicted is the least recently used one when
\* the last Add starts: "k" if "k" is still live (Get("k") came before
\* Add("k2"), so "k2" is the more recent of the two), "k2" if Add("k2") has
\* already evicted "k", and "k3" itself if the cache was empty.
C15_Scenario3 ==
    (clock = 4 /\ pc = "done" /\ Cardinality(Removed) = 1) =>
       /\ Removed = {Started[Len(Started)]}
       /\ {e.key : e \in Removed} =
             IF "k" \in PreKeys THEN {"k"}
             ELSE IF "k2" \in PreKeys THEN {"k2"} ELSE {"k3"}

C15_Witness ==
    /\ clock = 4 /\ pc = "done" /\ Cardinality(Removed) = 1
    /\ PreKeys = {"k", "k2"}
    /\ ListKeys = {"k2", "k3"}
    /\ OnEvicted /\ Len(cbLog) = 1 /\ cbLog[1].key = "k"

\* the number of entries the running call has removed
NRemoved == Len(Started) - CacheLen

\* C17: with maxBytes > 0, Add evicts only while nbytes > maxBytes: an Add
\* that brings nbytes to exactly maxBytes evicts nothing, and an Add that
\* overflows evicts the shortest least-recently-used suffix that brings
\* nbytes back to at most maxBytes.
C17_MinimalEviction ==
    (pc = "done" /\ op = "Add" /\ maxBytes > 0) =>
       /\ Entries(ll, nodes) = SubSeq(Started, 1, Len(Started) - NRemoved)
       /\ SumSizes(Entries(ll, nodes)) <= maxBytes
       /\ NRemoved > 0 =>
             SumSizes(SubSeq(Started, 1, Len(Started) - NRemoved + 1)) > maxBytes
       /\ SumSizes(Started) <= maxBytes => NRemoved = 0

C17_Witness ==
    /\ pc = "done" /\ op = "Add" /\ maxBytes > 0
    /\ SumSizes(Started) = maxBytes
    /\ Len(Started) = 2 /\ CacheLen = 2 /\ cbLog = <<>>

\* the example of C17: the budget fits one entry exactly, a second entry of
\* the same size evicts the first one only
MinimalEvictionExample ==
    /\ pc = "done" /\ op = "Add" /\ OnEvicted
    /\ Len(pre) = 1 /\ SumSizes(pre) = maxBytes
    /\ arg.key # pre[1].key
    /\ Len(arg.key) + Len(arg.value) = maxBytes
    /\ cbLog = pre /\ CacheLen = 1 /\ nodes[ll[1]] = arg

\* C19: with maxBytes > 0 and len(k) + v.Len() <= maxBytes, Add(k, v) returns
\* with k in the cache, with value v, in front of the list, and OnEvicted is
\* never called with key k during that Add.
C19_FittingEntrySurvives ==
    (op = "Add" /\ maxBytes > 0 /\ Len(arg.key) + Len(arg.value) <= maxBytes) =>
       /\ \A i \in 1..Len(cbLog) : cbLog[i].key # arg.key
       /\ CacheLen >= 1
       /\ nodes[ll[1]] = arg
       /\ arg.key \in DOMAIN cache
       /\ cache[arg.key] = ll[1]

C19_Witness ==
    /\ pc = "done" /\ op = "Add" /\ maxBytes > 0 /\ OnEvicted
    /\ Len(arg.key) + Len(arg.value) <= maxBytes
    /\ Len(cbLog) = 2
    /\ CacheLen = 1 /\ nodes[ll[1]] = arg

\* a sequence back to front
Reverse(q) == [i \in 1..Len(q) |-> q[Len(q) + 1 - i]]

\* C20: with maxBytes > 0 and len(k) + v.Len() > maxBytes, Add(k, v) returns
\* with the cache empty and nbytes = 0, OnEvicted having been called for
\* every entry that was live, least recently used first, and last of all
\* for (k, v).
C20_OversizedEntry ==
    (pc = "done" /\ op = "Add" /\ maxBytes > 0
       /\ Len(arg.key) + Len(arg.value) > maxBytes) =>
       /\ ll = <<>>
       /\ DOMAIN cache = {}
       /\ nbytes = 0
       /\ OnEvicted => cbLog = Reverse(Started)
       /\ OnEvicted => cbLog[Len(cbLog)] = arg

C20_Witness ==
    /\ pc = "done" /\ op = "Add" /\ maxBytes > 0 /\ OnEvicted
    /\ Len(arg.key) + Len(arg.value) > maxBytes
    /\ Len(pre) = 1 /\ arg.key \notin PreKeys
    /\ Len(cbLog) = 2 /\ cbLog[1] = pre[1] /\ cbLog[2] = arg
    /\ ll = <<>> /\ nbytes = 0

\* C16: writing into a slice that ByteSlice returned never changes what
\* Len, ByteSlice and String of the same ByteView return.
C16_CopyLaw ==
    view # Nil =>
       /\ ByteViewLen(heap, view) = Len(orig)
       /\ ByteSliceBytes(heap, view) = orig
       /\ ByteViewString(heap, view) = orig

C16_Witness ==
    /\ view # Nil /\ Len(orig) = 2
    /\ Cardinality(held) = 2
    /\ \A a \in held : \A i \in 1..2 : heap[a][i] # orig[i]
    /\ ByteSliceBytes(heap, view) = orig

\* C18: two callers without a lock can leave the cache with nbytes different
\* from the bytes of the live entries, or with index and list no longer in
\* bijection (C18_Witness is such a state); as long as the calls run one
\* after the other, no such state is left behind.
C18_UnsafeWithoutLock ==
    (procs # <<>> /\ Quiescent /\ ~overlapped) => (C1_Accounting /\ C3_Bijection)

C18_Witness ==
    /\ procs # <<>> /\ Quiescent /\ overlapped
    /\ ~C1_Accounting
    /\ ~C3_Bijection

====
